---- MODULE Spec2Model ----
(***************************************************************************)
(* Verification model of the lld-ood pattern catalog.                      *)
(*   - lld/javascript/parking-garage.js : Vehicle, ParkingSpot, Level,     *)
(*     ParkingLot (allocator and its singleton accessor)                   *)
(*   - design-patterns/creational/singleton.js : Singleton                 *)
(*   - unnamed/part_000 : Subject / ConcreteObserver, getSpecialString     *)
(*   - unnamed/part_002 : Editor / EditorMemento                           *)
(*   - liveupdates/PriorityQueue.js : topKFrequent                         *)
(*   - liveupdates/longPoll.js : longPoll                                  *)
(*   - recursion/reverseString.js : reverse                                *)
(*   - design-patterns/creational/$abstract-factory.js : Command example   *)
(*   - tryexponent/degrees-of-friendship.js : friendDistance               *)
(***************************************************************************)
EXTENDS Integers, Sequences, FiniteSets, TLC

VARIABLES
    levels,        \* ParkingLot.levels : sequence of Level objects
    last,          \* the last parking call: operation, argument, outcome
    before,        \* ParkingLot.levels as it was when the last call began
    numSpots,      \* argument of the Level constructor under study
    built,         \* the Level it produced: <<>> before, <<level>> after
    observers,     \* Subject.observers : sequence of observer references
    updates,       \* update() invocations made by the last notify, in order
    notifyOutcome, \* the last notify: payload, list it began with, how it ended
    sInstance,     \* Singleton.instance (static field)
    sHeap,         \* number of Singleton objects allocated so far
    sAcquired,     \* log of acquisitions: how, and the reference obtained
    plInstance,    \* module variable `instance` of parking-garage.js
    plHeap,        \* number of ParkingLot objects that finished construction
    plAcquired,    \* log of ParkingLot acquisitions
    subjectCall,   \* the last attach/detach: operation, observer, list before it
    edContent,     \* Editor.content
    edMementos,    \* the EditorMemento objects created so far (their content field)
    edSaved,       \* Editor.content at the moment each memento was created
    edLast,        \* the last Editor call: operation and memento reference
    gsInput,       \* argument s of getSpecialString
    gsDone,        \* whether the call has returned
    gsResult,      \* the string it returned
    tkWords,       \* argument words of topKFrequent
    tkK,           \* argument k
    tkDone,        \* whether the call has returned
    tkResult,      \* the list it returned
    lpFetches,     \* fetch requests in flight
    lpParsing,     \* response.json() calls pending
    lpTimers,      \* delays of the pending retry timers
    lpStarted,     \* longPoll calls made, counted up to MaxPolls
    lpFailures,    \* failures in a row, counted up to MaxPolls
    lpLast,        \* the last event of the client
    rvInput,       \* argument of the outermost reverse call
    rvArg,         \* argument s of the innermost call
    rvStack,       \* frames of the calls waiting for their recursive call
    rvStatus,      \* called, returning, returned or RangeError
    rvResult,      \* the value being returned
    cmScope,       \* names the scope around the file binds
    cmEditor,      \* the editor object: selected text and clipboard
    cmButton,      \* the command of copyButton, or none before it is built
    cmLast,        \* the last statement of the example: operation, whether it threw
    fdFriends,     \* argument friends of friendDistance
    fdUserA,       \* argument userA
    fdUserB,       \* argument userB
    fdDone,        \* whether the call has returned
    fdResult,      \* the number it returned
    fwCharacters,  \* CharacterFactory.characters: set of [key, ref]
    fwHeap,        \* the Character objects created, by reference
    fwCalls,       \* the getCharacter calls made: symbol, font, reference returned
    obUpdate       \* the body of each observer's update method

vars == <<levels, last, before, numSpots, built, observers, updates,
          notifyOutcome, sInstance, sHeap, sAcquired, plInstance, plHeap,
          plAcquired, subjectCall, edContent, edMementos, edSaved, edLast,
          gsInput, gsDone, gsResult, tkWords, tkK, tkDone, tkResult,
          lpFetches, lpParsing, lpTimers, lpStarted, lpFailures, lpLast,
          rvInput, rvArg, rvStack, rvStatus, rvResult, cmScope, cmEditor,
          cmButton, cmLast, fdFriends, fdUserA, fdUserB, fdDone, fdResult,
          fwCharacters, fwHeap, fwCalls, obUpdate>>

lotVars == <<levels, last, before>>
levelVars == <<numSpots, built>>
subjectVars == <<observers, updates, notifyOutcome, subjectCall>>
singletonVars == <<sInstance, sHeap, sAcquired>>
plVars == <<plInstance, plHeap, plAcquired>>
editorVars == <<edContent, edMementos, edSaved, edLast>>
specialVars == <<gsInput, gsDone, gsResult>>
topKVars == <<tkWords, tkK, tkDone, tkResult>>
pollVars == <<lpFetches, lpParsing, lpTimers, lpStarted, lpFailures, lpLast>>
reverseVars == <<rvInput, rvArg, rvStack, rvStatus, rvResult>>
commandVars == <<cmScope, cmEditor, cmButton, cmLast>>
friendVars == <<fdFriends, fdUserA, fdUserB, fdDone, fdResult>>
flyVars == <<fwCharacters, fwHeap, fwCalls>>
callbackVars == <<obUpdate>>

\* the parking lot, the Level study, the Subject and the two singletons
coreVars == <<lotVars, levelVars, subjectVars, singletonVars, plVars>>

\* the examples modelled after them
catalogVars == <<editorVars, specialVars, topKVars, pollVars, reverseVars, commandVars, friendVars, flyVars, callbackVars>>

\* for each of these examples, the state of all the others
exceptEditor == <<coreVars, specialVars, topKVars, pollVars, reverseVars, commandVars, friendVars, flyVars, callbackVars>>
exceptSpecial == <<coreVars, editorVars, topKVars, pollVars, reverseVars, commandVars, friendVars, flyVars, callbackVars>>
exceptTopK == <<coreVars, editorVars, specialVars, pollVars, reverseVars, commandVars, friendVars, flyVars, callbackVars>>
exceptPoll == <<coreVars, editorVars, specialVars, topKVars, reverseVars, commandVars, friendVars, flyVars, callbackVars>>
exceptReverse == <<coreVars, editorVars, specialVars, topKVars, pollVars, commandVars, friendVars, flyVars, callbackVars>>
exceptCommand == <<coreVars, editorVars, specialVars, topKVars, pollVars, reverseVars, friendVars, flyVars, callbackVars>>
exceptFriends == <<coreVars, editorVars, specialVars, topKVars, pollVars, reverseVars, commandVars, flyVars, callbackVars>>
exceptFly == <<coreVars, editorVars, specialVars, topKVars, pollVars, reverseVars, commandVars, friendVars, callbackVars>>
exceptCallbacks == <<coreVars, editorVars, specialVars, topKVars, pollVars, reverseVars, commandVars, friendVars, flyVars>>

NULL == 0

(***************************************************************************)
(* Bounds                                                                  *)
(***************************************************************************)
NumVehicles == 4       \* vehicle objects 1..NumVehicles
MaxLevels == 2         \* addLevel calls
MaxLevelSpots == 3     \* numSpots of the levels added to the lot
MaxNumSpots == 100     \* numSpots range of the Level constructor study
NumObservers == 3      \* observer objects 1..NumObservers
MaxObservers == 3      \* length of Subject.observers
NumPayloads == 2       \* payload values 1..NumPayloads
MaxAcquisitions == 6   \* Singleton acquisitions
MaxLotAcquisitions == 6 \* ParkingLot acquisitions
NumVersions == 3       \* Editor contents 'Version 1'..'Version NumVersions'
MaxMementos == 3       \* createSnapshot calls

NumLowLetters == 3     \* input letters 'a'.. of getSpecialString
NumHighLetters == 2    \* input letters ..'z' of getSpecialString
MaxStrLen == 3         \* length of the getSpecialString inputs

NumWordLetters == 2    \* letters 'a'.. of the topKFrequent words
MaxWordLen == 2        \* length of a word
MaxWords == 3          \* length of the word list
MaxK == 3              \* argument k

MaxPolls == 8          \* longPoll calls counted (the count stops there, polling does not)

NumRevLetters == 3     \* letters 'a'.. of the reverse inputs
MaxRevLen == 4         \* length of the reverse inputs
MaxCallDepth == 6      \* frames the call stack holds before RangeError

NumTexts == 5          \* texts the editor's getSelectedText can return

NumUsers == 3          \* users 0..NumUsers-1 of the friends matrix
MaxEdges == 4          \* entries equal to 1 in the friends matrix


NumGlyphs == 2         \* letters the symbols and fonts of the flyweights use
MaxGlyphLen == 2       \* length of a symbol and of a font
MaxFlyCalls == 3       \* getCharacter calls on the one factory


MaxReentrant == 1      \* observers whose update calls back into the Subject

(***************************************************************************)
(* VehicleType, Vehicle and its subclasses                                 *)
(***************************************************************************)
VehicleType == [CAR |-> "CAR", MOTORCYCLE |-> "MOTORCYCLE", TRUCK |-> "TRUCK"]

Vehicle(licensePlate, type) == [licensePlate |-> licensePlate, type |-> type]

Motorcycle(licensePlate) == Vehicle(licensePlate, VehicleType.MOTORCYCLE)

Car(licensePlate) == Vehicle(licensePlate, VehicleType.CAR)

Truck(licensePlate) == Vehicle(licensePlate, VehicleType.TRUCK)

getType(vehicle) == vehicle.type

\* The vehicle objects of the model.  A reference is the object's index;
\* objects 1 and 4 are two distinct cars carrying the same licence plate.
VehicleRefs == 1..NumVehicles

Deref(ref) ==
    CASE ref % 3 = 1 -> Car("ABC123")
      [] ref % 3 = 2 -> Truck("XYZ789")
      [] OTHER       -> Motorcycle("M1234")

(***************************************************************************)
(* IEEE-754 binary64 arithmetic used by the Level constructor.             *)
(* A positive double is significand * 2^-scale; significands are bit       *)
(* sequences, least significant bit first.                                 *)
(***************************************************************************)
RECURSIVE Repeat(_, _)
Repeat(pat, k) == IF k = 0 THEN <<>> ELSE pat \o Repeat(pat, k - 1)

\* 0.1 = 0x1999999999999A * 2^-56
spotsForBikes == [sig |-> <<0, 1, 0, 1>> \o Repeat(<<1, 0, 0, 1>>, 12) \o <<1>>,
                  scale |-> 56]

\* 0.7 = 0x16666666666666 * 2^-53
spotsForCars == [sig |-> Repeat(<<0, 1, 1, 0>>, 13) \o <<1>>, scale |-> 53]

RECURSIVE MulBits(_, _, _)
MulBits(bits, n, carry) ==
    IF bits = <<>>
    THEN IF carry = 0 THEN <<>>
         ELSE <<carry % 2>> \o MulBits(<<>>, n, carry \div 2)
    ELSE LET t == n * Head(bits) + carry
         IN  <<t % 2>> \o MulBits(Tail(bits), n, t \div 2)

RECURSIVE StripZeros(_)
StripZeros(bits) ==
    IF bits = <<>> THEN <<>>
    ELSE IF bits[Len(bits)] = 0 THEN StripZeros(SubSeq(bits, 1, Len(bits) - 1))
    ELSE bits

RECURSIVE IncBits(_)
IncBits(bits) ==
    IF bits = <<>> THEN <<1>>
    ELSE IF Head(bits) = 0 THEN <<1>> \o Tail(bits)
    ELSE <<0>> \o IncBits(Tail(bits))

\* round an exact product to 53 significant bits, ties to even
RoundNearestEven(bits) ==
    IF Len(bits) <= 53 THEN bits
    ELSE LET s      == Len(bits) - 53
             kept   == SubSeq(bits, s + 1, Len(bits))
             guard  == bits[s]
             sticky == \E i \in 1..(s - 1) : bits[i] = 1
             up     == guard = 1 /\ (sticky \/ kept[1] = 1)
         IN  [i \in 1..s |-> 0] \o (IF up THEN IncBits(kept) ELSE kept)

\* numSpots * d as the double the multiplication produces
FMul(n, d) ==
    [sig |-> RoundNearestEven(StripZeros(MulBits(d.sig, n, 0))), scale |-> d.scale]

RECURSIVE BitsToNat(_)
BitsToNat(bits) ==
    IF bits = <<>> THEN 0 ELSE Head(bits) + 2 * BitsToNat(Tail(bits))

MathFloor(x) ==
    IF Len(x.sig) <= x.scale THEN 0
    ELSE BitsToNat(SubSeq(x.sig, x.scale + 1, Len(x.sig)))

(***************************************************************************)
(* ParkingSpot                                                             *)
(***************************************************************************)
ParkingSpot(spotNumber, vehicleType) ==
    [spotNumber |-> spotNumber, vehicleType |-> vehicleType, parkedVehicle |-> NULL]

isAvailable(spot) == spot.parkedVehicle = NULL

getParkedVehicle(spot) == spot.parkedVehicle

getVehicleType(spot) == spot.vehicleType

getSpotNumber(spot) == spot.spotNumber

\* variant: the vehicle's type is not compared with the spot's
SpotParkVehicle_NoTypeTest(spot, ref) ==
    IF isAvailable(spot)
    THEN [spot |-> [spot EXCEPT !.parkedVehicle = ref], threw |-> FALSE]
    ELSE [spot |-> spot, threw |-> TRUE]

\* variant: the availability test is dropped
SpotParkVehicle_NoAvailabilityTest(spot, ref) ==
    IF getType(Deref(ref)) = spot.vehicleType
    THEN [spot |-> [spot EXCEPT !.parkedVehicle = ref], threw |-> FALSE]
    ELSE [spot |-> spot, threw |-> TRUE]

\* ParkingSpot.parkVehicle: the spot afterwards and whether the call threw
SpotParkVehicle(spot, ref) ==
    IF isAvailable(spot) /\ getType(Deref(ref)) = spot.vehicleType
    THEN [spot |-> [spot EXCEPT !.parkedVehicle = ref], threw |-> FALSE]
    ELSE [spot |-> spot, threw |-> TRUE]

\* variant: the field is not cleared
SpotUnparkVehicle_Keeps(spot) == spot

SpotUnparkVehicle(spot) == [spot EXCEPT !.parkedVehicle = NULL]

(***************************************************************************)
(* Level                                                                   *)
(***************************************************************************)
Level(floor, n) ==
    LET numBikes == MathFloor(FMul(n, spotsForBikes))
        numCars  == MathFloor(FMul(n, spotsForCars))
        i        == numBikes + 1          \* value of i when the first loop ends
        bikes    == [x \in 1..numBikes |-> ParkingSpot(x, VehicleType.MOTORCYCLE)]
        cars     == [x \in 1..numCars |-> ParkingSpot(i + x - 1, VehicleType.CAR)]
        first    == i + numCars           \* start of the third loop
        trucks   == [x \in 1..(n - first + 1) |->
                        ParkingSpot(first + x - 1, VehicleType.TRUCK)]
    IN  [floor |-> floor, parkingSpots |-> bikes \o cars \o trucks]

\* Level.parkVehicle: scan from spot index k on
RECURSIVE LevelParkFrom(_, _, _)
LevelParkFrom(level, ref, k) ==
    IF k > Len(level.parkingSpots) THEN [level |-> level, ret |-> FALSE, spot |-> 0]
    ELSE LET spot == level.parkingSpots[k]
         IN  IF isAvailable(spot) /\ getVehicleType(spot) = getType(Deref(ref))
             THEN [level |-> [level EXCEPT !.parkingSpots[k] =
                                              SpotParkVehicle(spot, ref).spot],
                   ret |-> ~SpotParkVehicle(spot, ref).threw, spot |-> k]
             ELSE LevelParkFrom(level, ref, k + 1)

\* variant: the scan skips the first spot
LevelParkVehicle_SkipsFirst(level, ref) == LevelParkFrom(level, ref, 2)

LevelParkVehicle(level, ref) == LevelParkFrom(level, ref, 1)

\* Level.unparkVehicle: scan from spot index k on
RECURSIVE LevelUnparkFrom(_, _, _)
LevelUnparkFrom(level, ref, k) ==
    IF k > Len(level.parkingSpots) THEN [level |-> level, ret |-> FALSE, spot |-> 0]
    ELSE LET spot == level.parkingSpots[k]
         IN  IF ~isAvailable(spot) /\ getParkedVehicle(spot) = ref
             THEN [level |-> [level EXCEPT !.parkingSpots[k] = SpotUnparkVehicle(spot)],
                   ret |-> TRUE, spot |-> k]
             ELSE LevelUnparkFrom(level, ref, k + 1)

\* variant: vehicles are compared by value (type and plate), not by reference
RECURSIVE LevelUnparkByValueFrom(_, _, _)
LevelUnparkByValueFrom(level, ref, k) ==
    IF k > Len(level.parkingSpots) THEN [level |-> level, ret |-> FALSE, spot |-> 0]
    ELSE LET spot == level.parkingSpots[k]
         IN  IF ~isAvailable(spot) /\ Deref(getParkedVehicle(spot)) = Deref(ref)
             THEN [level |-> [level EXCEPT !.parkingSpots[k] = SpotUnparkVehicle(spot)],
                   ret |-> TRUE, spot |-> k]
             ELSE LevelUnparkByValueFrom(level, ref, k + 1)

LevelUnparkVehicle_ByValue(level, ref) == LevelUnparkByValueFrom(level, ref, 1)

LevelUnparkVehicle(level, ref) == LevelUnparkFrom(level, ref, 1)

(***************************************************************************)
(* ParkingLot: parkVehicle / unparkVehicle / addLevel                      *)
(***************************************************************************)
RECURSIVE LotParkFrom(_, _, _)
LotParkFrom(lvls, ref, l) ==
    IF l > Len(lvls) THEN [levels |-> lvls, ret |-> FALSE, level |-> 0, spot |-> 0]
    ELSE LET r == LevelParkVehicle(lvls[l], ref)
         IN  IF r.ret
             THEN [levels |-> [lvls EXCEPT ![l] = r.level], ret |-> TRUE,
                   level |-> l, spot |-> r.spot]
             ELSE LotParkFrom(lvls, ref, l + 1)

\* variant: only the first level is tried
LotParkVehicle_FirstLevelOnly(lvls, ref) ==
    IF lvls = <<>> THEN LotParkFrom(lvls, ref, 1)
    ELSE LET r == LotParkFrom(<<lvls[1]>>, ref, 1)
         IN  [r EXCEPT !.levels = [lvls EXCEPT ![1] = r.levels[1]]]

LotParkVehicle(lvls, ref) == LotParkFrom(lvls, ref, 1)

RECURSIVE LotUnparkFrom(_, _, _)
LotUnparkFrom(lvls, ref, l) ==
    IF l > Len(lvls) THEN [levels |-> lvls, ret |-> FALSE, level |-> 0, spot |-> 0]
    ELSE LET r == LevelUnparkVehicle(lvls[l], ref)
         IN  IF r.ret
             THEN [levels |-> [lvls EXCEPT ![l] = r.level], ret |-> TRUE,
                   level |-> l, spot |-> r.spot]
             ELSE LotUnparkFrom(lvls, ref, l + 1)

LotUnparkVehicle(lvls, ref) == LotUnparkFrom(lvls, ref, 1)

Call(op, ref, ret, threw, l, s) ==
    [op |-> op, vehicle |-> ref, ret |-> ret, threw |-> threw, level |-> l, spot |-> s]

InitLot ==
    /\ levels = <<>>
    /\ last = Call("none", NULL, FALSE, FALSE, 0, 0)
    /\ before = <<>>

addLevel(n) ==
    /\ Len(levels) < MaxLevels
    /\ levels' = Append(levels, Level(Len(levels) + 1, n))
    /\ last' = Call("addLevel", NULL, FALSE, FALSE, Len(levels) + 1, 0)
    /\ before' = levels

parkVehicle(ref) ==
    LET r == LotParkVehicle(levels, ref)
    IN  /\ levels' = r.levels
        /\ last' = Call("parkVehicle", ref, r.ret, FALSE, r.level, r.spot)
        /\ before' = levels

unparkVehicle(ref) ==
    LET r == LotUnparkVehicle(levels, ref)
    IN  /\ levels' = r.levels
        /\ last' = Call("unparkVehicle", ref, r.ret, FALSE, r.level, r.spot)
        /\ before' = levels

\* a direct ParkingSpot.parkVehicle call on spot s of level l
spotParkVehicle(l, s, ref) ==
    LET r == SpotParkVehicle(levels[l].parkingSpots[s], ref)
    IN  /\ levels' = [levels EXCEPT ![l].parkingSpots[s] = r.spot]
        /\ last' = Call("spot.parkVehicle", ref, FALSE, r.threw, l, s)
        /\ before' = levels

\* a direct ParkingSpot.unparkVehicle call on spot s of level l
spotUnparkVehicle(l, s) ==
    /\ levels' = [levels EXCEPT ![l].parkingSpots[s] =
                                   SpotUnparkVehicle(levels[l].parkingSpots[s])]
    /\ last' = Call("spot.unparkVehicle", NULL, FALSE, FALSE, l, s)
    /\ before' = levels

AddLevelStep ==
    /\ \E n \in 0..MaxLevelSpots : addLevel(n)
    /\ UNCHANGED <<levelVars, subjectVars, singletonVars, plVars, catalogVars>>

ParkStep ==
    /\ \E ref \in VehicleRefs : parkVehicle(ref)
    /\ UNCHANGED <<levelVars, subjectVars, singletonVars, plVars, catalogVars>>

UnparkStep ==
    /\ \E ref \in VehicleRefs : unparkVehicle(ref)
    /\ UNCHANGED <<levelVars, subjectVars, singletonVars, plVars, catalogVars>>

SpotParkStep ==
    /\ \E l \in 1..Len(levels) : \E s \in 1..Len(levels[l].parkingSpots) :
          \E ref \in VehicleRefs : spotParkVehicle(l, s, ref)
    /\ UNCHANGED <<levelVars, subjectVars, singletonVars, plVars, catalogVars>>

SpotUnparkStep ==
    /\ \E l \in 1..Len(levels) : \E s \in 1..Len(levels[l].parkingSpots) :
          spotUnparkVehicle(l, s)
    /\ UNCHANGED <<levelVars, subjectVars, singletonVars, plVars, catalogVars>>

(***************************************************************************)
(* Level constructor study: one construction per numSpots                  *)
(***************************************************************************)
InitLevel ==
    /\ numSpots \in 0..MaxNumSpots
    /\ built = <<>>

Construct ==
    /\ built = <<>>
    /\ built' = <<Level(1, numSpots)>>
    /\ UNCHANGED <<numSpots, lotVars, subjectVars, singletonVars, plVars, catalogVars>>

(***************************************************************************)
(* Subject / ConcreteObserver (Observer pattern)                           *)
(***************************************************************************)
ObserverRefs == 1..NumObservers

Payloads == 1..NumPayloads

Unbound == "unbound"

InitSubject ==
    /\ observers = <<>>
    /\ updates = <<>>
    /\ notifyOutcome = [state |-> "none", payload |-> NULL, attached |-> <<>>]
    /\ subjectCall = [op |-> "none", observer |-> NULL, before |-> <<>>]

SubjectAttach(list, o) == Append(list, o)

attach(o) ==
    /\ Len(observers) < MaxObservers
    /\ observers' = SubjectAttach(observers, o)
    /\ subjectCall' = [op |-> "attach", observer |-> o, before |-> observers]
    /\ UNCHANGED <<updates, notifyOutcome>>

\* variant: only the first occurrence is removed
SubjectDetach_FirstOnly(list, o) ==
    LET at == {i \in 1..Len(list) : list[i] = o}
    IN  IF at = {} THEN list
        ELSE LET i == CHOOSE x \in at : \A y \in at : x <= y
             IN  SubSeq(list, 1, i - 1) \o SubSeq(list, i + 1, Len(list))

SubjectDetach(list, o) == SelectSeq(list, LAMBDA x : x # o)

detach(o) ==
    /\ observers' = SubjectDetach(observers, o)
    /\ subjectCall' = [op |-> "detach", observer |-> o, before |-> observers]
    /\ UNCHANGED <<updates, notifyOutcome>>

\* identifier resolution inside the arrow function of notify(observer):
\* its own parameter o, the enclosing parameter observer, nothing else
Lookup(name, arg, o) ==
    CASE name = "o"        -> o
      [] name = "observer" -> arg
      [] OTHER             -> Unbound

\* this.observers.forEach((o) => o.update(data)), from index k on
RECURSIVE ForEachUpdate(_, _, _, _)
ForEachUpdate(list, arg, k, done) ==
    IF k > Len(list) THEN [updates |-> done, state |-> "returned"]
    ELSE LET data == Lookup("data", arg, list[k])
         IN  IF data = Unbound
             THEN [updates |-> done, state |-> "ReferenceError"]
             ELSE ForEachUpdate(list, arg, k + 1,
                                Append(done, [observer |-> list[k], data |-> data]))

SubjectNotify(list, arg) == ForEachUpdate(list, arg, 1, <<>>)

notify(arg) ==
    LET r == SubjectNotify(observers, arg)
    IN  /\ updates' = r.updates
        /\ notifyOutcome' = [state |-> r.state, payload |-> arg, attached |-> observers]
        /\ UNCHANGED <<observers, subjectCall>>

AttachStep ==
    /\ \E o \in ObserverRefs : attach(o)
    /\ UNCHANGED <<lotVars, levelVars, singletonVars, plVars, catalogVars>>

DetachStep ==
    /\ \E o \in ObserverRefs : detach(o)
    /\ UNCHANGED <<lotVars, levelVars, singletonVars, plVars, catalogVars>>

NotifyStep ==
    /\ \E arg \in Payloads : notify(arg)
    /\ UNCHANGED <<lotVars, levelVars, singletonVars, plVars, catalogVars>>

(***************************************************************************)
(* Singleton (design-patterns/creational/singleton.js)                     *)
(***************************************************************************)
InitSingleton ==
    /\ sInstance = NULL
    /\ sHeap = 0
    /\ sAcquired = <<>>

\* variant: the early return of the existing instance is missing
SingletonConstructor_NoEarlyReturn(inst, this) == [instance |-> this, result |-> this]

\* constructor run on the fresh object `this`: the static field afterwards
\* and the value the `new` expression yields
SingletonConstructor(inst, this) ==
    IF inst # NULL
    THEN [instance |-> inst, result |-> inst]
    ELSE [instance |-> this, result |-> this]

SingletonGetInstance(inst, this) ==
    IF inst = NULL
    THEN LET r == SingletonConstructor(inst, this)
         IN  [instance |-> r.result, result |-> r.result, allocated |-> TRUE]
    ELSE [instance |-> inst, result |-> inst, allocated |-> FALSE]

newSingleton ==
    /\ Len(sAcquired) < MaxAcquisitions
    /\ LET r == SingletonConstructor(sInstance, sHeap + 1)
       IN  /\ sInstance' = r.instance
           /\ sHeap' = sHeap + 1
           /\ sAcquired' = Append(sAcquired, [how |-> "new", ref |-> r.result])
    /\ UNCHANGED <<lotVars, levelVars, subjectVars, plVars, catalogVars>>

singletonGetInstance ==
    /\ Len(sAcquired) < MaxAcquisitions
    /\ LET r == SingletonGetInstance(sInstance, sHeap + 1)
       IN  /\ sInstance' = r.instance
           /\ sHeap' = IF r.allocated THEN sHeap + 1 ELSE sHeap
           /\ sAcquired' = Append(sAcquired, [how |-> "getInstance", ref |-> r.result])
    /\ UNCHANGED <<lotVars, levelVars, subjectVars, plVars, catalogVars>>

(***************************************************************************)
(* ParkingLot construction and accessor (parking-garage.js)                *)
(***************************************************************************)
InitParkingLot ==
    /\ plInstance = NULL
    /\ plHeap = 0
    /\ plAcquired = <<>>

\* constructor run on the fresh object `this`; it never assigns `instance`
ParkingLotConstructor(inst, this) ==
    IF inst # NULL
    THEN [threw |-> TRUE, result |-> NULL]
    ELSE [threw |-> FALSE, result |-> this]

ParkingLotGetInstance(inst, this) ==
    IF inst = NULL
    THEN LET r == ParkingLotConstructor(inst, this)
         IN  [instance |-> r.result, result |-> r.result, allocated |-> TRUE]
    ELSE [instance |-> inst, result |-> inst, allocated |-> FALSE]

newParkingLot ==
    /\ Len(plAcquired) < MaxLotAcquisitions
    /\ LET r == ParkingLotConstructor(plInstance, plHeap + 1)
       IN  /\ plHeap' = IF r.threw THEN plHeap ELSE plHeap + 1
           /\ plAcquired' = Append(plAcquired,
                                   [how |-> "new", ref |-> r.result, threw |-> r.threw])
    /\ UNCHANGED <<plInstance, lotVars, levelVars, subjectVars, singletonVars, catalogVars>>

parkingLotGetInstance ==
    /\ Len(plAcquired) < MaxLotAcquisitions
    /\ LET r == ParkingLotGetInstance(plInstance, plHeap + 1)
       IN  /\ plInstance' = r.instance
           /\ plHeap' = IF r.allocated THEN plHeap + 1 ELSE plHeap
           /\ plAcquired' = Append(plAcquired,
                                   [how |-> "getInstance", ref |-> r.result, threw |-> FALSE])
    /\ UNCHANGED <<lotVars, levelVars, subjectVars, singletonVars, catalogVars>>

(***************************************************************************)
(* Editor / EditorMemento (Memento pattern)                                *)
(***************************************************************************)
\* content values: 0 is the empty string of the constructor, k is 'Version k'
Contents == 0..NumVersions

IdleEditor ==
    /\ edContent = 0
    /\ edMementos = <<>>
    /\ edSaved = <<>>
    /\ edLast = [op |-> "none", memento |-> NULL]

EditorMemento(content) == [content |-> content]

getContent(memento) == memento.content

EditorSetContent(editor, content) == content

EditorCreateSnapshot(editor) == EditorMemento(editor)

\* variant: the memento is ignored
EditorRestoreSnapshot_Ignores(editor, memento) == editor

EditorRestoreSnapshot(editor, memento) == getContent(memento)

setContent(c) ==
    /\ edContent' = EditorSetContent(edContent, c)
    /\ edLast' = [op |-> "setContent", memento |-> NULL]
    /\ UNCHANGED <<edMementos, edSaved>>

createSnapshot ==
    /\ Len(edMementos) < MaxMementos
    /\ edMementos' = Append(edMementos, EditorCreateSnapshot(edContent))
    /\ edSaved' = Append(edSaved, edContent)
    /\ edLast' = [op |-> "createSnapshot", memento |-> Len(edMementos) + 1]
    /\ UNCHANGED edContent

restoreSnapshot(m) ==
    /\ edContent' = EditorRestoreSnapshot(edContent, edMementos[m])
    /\ edLast' = [op |-> "restoreSnapshot", memento |-> m]
    /\ UNCHANGED <<edMementos, edSaved>>

SetContentStep ==
    /\ \E c \in Contents : setContent(c)
    /\ UNCHANGED exceptEditor

CreateSnapshotStep ==
    /\ createSnapshot
    /\ UNCHANGED exceptEditor

RestoreSnapshotStep ==
    /\ \E m \in 1..Len(edMementos) : restoreSnapshot(m)
    /\ UNCHANGED exceptEditor

(***************************************************************************)
(* getSpecialString / fillRest (unnamed/part_000).  Strings are sequences  *)
(* of character codes; JavaScript index i is position i + 1 here.          *)
(***************************************************************************)
CodeA == 97

CodeZ == 122

\* the string '-1'
MinusOne == <<45, 49>>

\* the letters the inputs are drawn from: the first ones and the last ones
InputCodes == (CodeA..(CodeA + NumLowLetters - 1)) \cup ((CodeZ - NumHighLetters + 1)..CodeZ)

InputStrings == UNION {[1..n -> InputCodes] : n \in 0..MaxStrLen}

MinOf(S) == CHOOSE x \in S : \A y \in S : x <= y

\* variant: the comparison with the previous character is missing
Allowed_Always(chars, index, code) == TRUE

\* index === 0 || nextChar !== chars[index - 1]
Allowed(chars, index, code) == index = 1 \/ code # chars[index - 1]

\* fillRest(chars, startIndex): whether it succeeded, and chars as it left them
RECURSIVE FillRest(_, _)
FillRest(chars, i) ==
    IF i > Len(chars) THEN [ok |-> TRUE, chars |-> chars]
    ELSE LET fit == {code \in CodeA..CodeZ : Allowed(chars, i, code)}
         IN  IF fit = {} THEN [ok |-> FALSE, chars |-> chars]
             ELSE FillRest([chars EXCEPT ![i] = MinOf(fit)], i + 1)

\* the inner loop of getSpecialString at position index, from `code` on
RECURSIVE TryCodes(_, _, _)
TryCodes(chars, index, code) ==
    IF code > CodeZ THEN [found |-> FALSE, chars |-> chars]
    ELSE IF Allowed(chars, index, code)
         THEN LET f == FillRest([chars EXCEPT ![index] = code], index + 1)
              IN  IF f.ok THEN [found |-> TRUE, chars |-> f.chars]
                  ELSE TryCodes(f.chars, index, code + 1)
         ELSE TryCodes(chars, index, code + 1)

\* the outer loop, from position index down to the first
RECURSIVE ScanBack(_, _)
ScanBack(chars, index) ==
    IF index < 1 THEN MinusOne
    ELSE LET r == TryCodes(chars, index, chars[index] + 1)
         IN  IF r.found THEN r.chars ELSE ScanBack(r.chars, index - 1)

getSpecialString(s) == ScanBack(s, Len(s))

IdleSpecial ==
    /\ gsInput = <<>>
    /\ gsDone = FALSE
    /\ gsResult = <<>>

InitSpecial ==
    /\ gsInput \in InputStrings
    /\ gsDone = FALSE
    /\ gsResult = <<>>

RunSpecial ==
    /\ ~gsDone
    /\ gsDone' = TRUE
    /\ gsResult' = getSpecialString(gsInput)
    /\ UNCHANGED <<gsInput, exceptSpecial>>

(***************************************************************************)
(* topKFrequent (liveupdates/PriorityQueue.js).  Words are sequences of    *)
(* character codes.  PriorityQueue is imported from                        *)
(* @datastructures-js/priority-queue and is modelled by its contract, as   *)
(* the call sites use it: enqueue adds an entry, dequeue removes the entry *)
(* that compare puts first and hands it over in the field `element`.      *)
(***************************************************************************)
WordLetters == CodeA..(CodeA + NumWordLetters - 1)

Vocabulary == UNION {[1..n -> WordLetters] : n \in 1..MaxWordLen}

\* the words argument: an array, or nothing at all
WordLists ==
    {[given |-> TRUE, list |-> l] :
        l \in UNION {[1..n -> Vocabulary] : n \in 0..MaxWords}}
    \cup {[given |-> FALSE, list |-> <<>>]}

\* a.localeCompare(b) on words of lowercase letters
RECURSIVE LocaleCompare(_, _)
LocaleCompare(a, b) ==
    IF a = <<>> THEN (IF b = <<>> THEN 0 ELSE -1)
    ELSE IF b = <<>> THEN 1
    ELSE IF Head(a) < Head(b) THEN -1
    ELSE IF Head(a) > Head(b) THEN 1
    ELSE LocaleCompare(Tail(a), Tail(b))

\* variant: lower frequency comes first
compareFunc_Ascending(a, b) ==
    IF a[2] # b[2] THEN a[2] - b[2] ELSE LocaleCompare(a[1], b[1])

\* entries are <<word, count>>
compareFunc(a, b) ==
    IF a[2] # b[2] THEN b[2] - a[2] ELSE LocaleCompare(a[1], b[1])

\* the Map built by getFrequencies, in insertion order, after words[i..]
RECURSIVE GetFrequenciesFrom(_, _, _)
GetFrequenciesFrom(words, i, freq) ==
    IF i > Len(words) THEN freq
    ELSE LET at == {j \in 1..Len(freq) : freq[j][1] = words[i]}
         IN  IF at = {}
             THEN GetFrequenciesFrom(words, i + 1, Append(freq, <<words[i], 0 + 1>>))
             ELSE LET j == CHOOSE x \in at : TRUE
                  IN  GetFrequenciesFrom(words, i + 1,
                                         [freq EXCEPT ![j] = <<words[i], freq[j][2] + 1>>])

getFrequencies(words) == GetFrequenciesFrom(words, 1, <<>>)

\* the queue holds its entries in dequeue order
PQEnqueue(pq, e) ==
    LET ahead == {j \in 1..Len(pq) : compareFunc(pq[j], e) <= 0}
        n     == Cardinality(ahead)
    IN  SubSeq(pq, 1, n) \o <<e>> \o SubSeq(pq, n + 1, Len(pq))

PQIsEmpty(pq) == pq = <<>>

PQDequeue(pq) == [element |-> Head(pq), rest |-> Tail(pq)]

RECURSIVE EnqueueAll(_, _, _)
EnqueueAll(freq, i, pq) ==
    IF i > Len(freq) THEN pq ELSE EnqueueAll(freq, i + 1, PQEnqueue(pq, freq[i]))

\* the loop `for (i = 0; i < k && !pq.isEmpty(); i++)`
RECURSIVE DequeueTop(_, _, _, _)
DequeueTop(pq, i, k, result) ==
    IF i < k /\ ~PQIsEmpty(pq)
    THEN DequeueTop(PQDequeue(pq).rest, i + 1, k,
                    Append(result, PQDequeue(pq).element[1]))
    ELSE result

topKFrequent(words, k) ==
    IF ~words.given \/ Len(words.list) = 0 THEN <<>>
    ELSE DequeueTop(EnqueueAll(getFrequencies(words.list), 1, <<>>), 0, k, <<>>)

IdleTopK ==
    /\ tkWords = [given |-> FALSE, list |-> <<>>]
    /\ tkK = 0
    /\ tkDone = FALSE
    /\ tkResult = <<>>

InitTopK ==
    /\ tkWords \in WordLists
    /\ tkK \in 0..MaxK
    /\ tkDone = FALSE
    /\ tkResult = <<>>

RunTopK ==
    /\ ~tkDone
    /\ tkDone' = TRUE
    /\ tkResult' = topKFrequent(tkWords, tkK)
    /\ UNCHANGED <<tkWords, tkK, exceptTopK>>

(***************************************************************************)
(* longPoll (liveupdates/longPoll.js).  The promise chain                  *)
(*   fetch(..).then(json).then(data => longPoll()).catch(setTimeout)       *)
(* is followed settlement by settlement; a handler runs in the step in     *)
(* which its promise settles.                                              *)
(***************************************************************************)
RetryDelay == 10000

\* longPoll(): one more fetch in flight
LongPoll(fetches) == fetches + 1

\* variant: the catch handler arms no timer
OnError_GivesUp(timers) == timers

\* the catch handler: setTimeout(longPoll, 10000)
OnError(timers) == Append(timers, RetryDelay)

Count(n) == IF n < MaxPolls THEN n + 1 ELSE n

\* the top-level longPoll() call has been made
IdlePoll ==
    /\ lpFetches = LongPoll(0)
    /\ lpParsing = 0
    /\ lpTimers = <<>>
    /\ lpStarted = 1
    /\ lpFailures = 0
    /\ lpLast = "longPoll"

\* fetch resolves: the first then-handler calls response.json()
FetchResolves ==
    /\ lpFetches > 0
    /\ lpFetches' = lpFetches - 1
    /\ lpParsing' = lpParsing + 1
    /\ lpLast' = "response"
    /\ UNCHANGED <<lpTimers, lpStarted, lpFailures, exceptPoll>>

\* fetch rejects: both then-handlers are skipped, the catch handler runs
FetchRejects ==
    /\ lpFetches > 0
    /\ lpFetches' = lpFetches - 1
    /\ lpTimers' = OnError(lpTimers)
    /\ lpFailures' = Count(lpFailures)
    /\ lpLast' = "fetch failed"
    /\ UNCHANGED <<lpParsing, lpStarted, exceptPoll>>

\* response.json() resolves: the second then-handler logs and calls longPoll()
JsonResolves ==
    /\ lpParsing > 0
    /\ lpParsing' = lpParsing - 1
    /\ lpFetches' = LongPoll(lpFetches)
    /\ lpStarted' = Count(lpStarted)
    /\ lpFailures' = 0
    /\ lpLast' = "data"
    /\ UNCHANGED <<lpTimers, exceptPoll>>

\* response.json() rejects: the catch handler runs
JsonRejects ==
    /\ lpParsing > 0
    /\ lpParsing' = lpParsing - 1
    /\ lpTimers' = OnError(lpTimers)
    /\ lpFailures' = Count(lpFailures)
    /\ lpLast' = "json failed"
    /\ UNCHANGED <<lpFetches, lpStarted, exceptPoll>>

\* variant: the timer stays armed after it fired, as with setInterval
TimerFires_Interval ==
    /\ lpTimers # <<>>
    /\ lpFetches' = LongPoll(lpFetches)
    /\ lpStarted' = Count(lpStarted)
    /\ lpLast' = "timer"
    /\ UNCHANGED <<lpTimers, lpParsing, lpFailures, exceptPoll>>

\* a timer set by the catch handler expires and calls longPoll()
TimerFires ==
    /\ lpTimers # <<>>
    /\ lpTimers' = Tail(lpTimers)
    /\ lpFetches' = LongPoll(lpFetches)
    /\ lpStarted' = Count(lpStarted)
    /\ lpLast' = "timer"
    /\ UNCHANGED <<lpParsing, lpFailures, exceptPoll>>

(***************************************************************************)
(* reverse (recursion/reverseString.js), call by call.  A frame keeps the  *)
(* left and right characters of a call that waits for its recursive call.  *)
(***************************************************************************)
RevStrings == UNION {[1..n -> CodeA..(CodeA + NumRevLetters - 1)] : n \in 0..MaxRevLen}

Clamp(x, len) == IF x < 0 THEN 0 ELSE IF x > len THEN len ELSE x

\* String.prototype.substring(start, end): both indices are clamped to
\* 0..length and swapped when start is the greater one
Substring(s, start, end) ==
    LET a  == Clamp(start, Len(s))
        b  == Clamp(end, Len(s))
        lo == IF a < b THEN a ELSE b
        hi == IF a < b THEN b ELSE a
    IN  SubSeq(s, lo + 1, hi)

IdleReverse ==
    /\ rvInput = <<>>
    /\ rvArg = <<>>
    /\ rvStack = <<>>
    /\ rvStatus = "idle"
    /\ rvResult = <<>>

\* reverse(s) has just been called
InitReverse ==
    /\ rvInput \in RevStrings
    /\ rvArg = rvInput
    /\ rvStack = <<>>
    /\ rvStatus = "called"
    /\ rvResult = <<>>

\* the base case: length === 0
ReverseBase ==
    /\ rvStatus = "called"
    /\ Len(rvArg) = 0
    /\ rvStatus' = "returning"
    /\ rvResult' = <<>>
    /\ UNCHANGED <<rvInput, rvArg, rvStack, exceptReverse>>

\* lines 7-13 up to the recursive call reverse(substring)
ReverseRecurse ==
    /\ rvStatus = "called"
    /\ Len(rvArg) # 0
    /\ Len(rvStack) < MaxCallDepth
    /\ LET length == Len(rvArg)
           left   == rvArg[1]
           right  == rvArg[length]
       IN  /\ rvStack' = Append(rvStack, [left |-> left, right |-> right])
           /\ rvArg' = Substring(rvArg, 1, length - 1)
    /\ UNCHANGED <<rvInput, rvStatus, rvResult, exceptReverse>>

\* the engine's call stack is exhausted: RangeError
ReverseOverflow ==
    /\ rvStatus = "called"
    /\ Len(rvArg) # 0
    /\ Len(rvStack) >= MaxCallDepth
    /\ rvStatus' = "RangeError"
    /\ UNCHANGED <<rvInput, rvArg, rvStack, rvResult, exceptReverse>>

\* a recursive call has returned: right + reverse(substring) + left
ReverseReturn ==
    /\ rvStatus = "returning"
    /\ rvStack # <<>>
    /\ LET frame == rvStack[Len(rvStack)]
       IN  rvResult' = <<frame.right>> \o rvResult \o <<frame.left>>
    /\ rvStack' = SubSeq(rvStack, 1, Len(rvStack) - 1)
    /\ UNCHANGED <<rvInput, rvArg, rvStatus, exceptReverse>>

\* the outermost call returns to its caller
ReverseDone ==
    /\ rvStatus = "returning"
    /\ rvStack = <<>>
    /\ rvStatus' = "returned"
    /\ UNCHANGED <<rvInput, rvArg, rvStack, rvResult, exceptReverse>>

(***************************************************************************)
(* Command / CopyCommand / Button ($abstract-factory.js).  The editor is   *)
(* the plain object of the example: what getSelectedText returns, and the  *)
(* clipboard (0 is the empty string, t is text t).                         *)
(***************************************************************************)
Texts == 1..NumTexts

\* `class CopyCommand extends Comamnd`: the file declares Command, CopyCommand
\* and Button only, so Comamnd resolves only if the surrounding scope has it
FileClasses == {"Command", "CopyCommand", "Button"}

HeritageResolves(scope) == "Comamnd" \in FileClasses \cup scope

\* new CopyCommand(editor): the command, or the ReferenceError of the class
NewCopyCommand(scope) ==
    IF HeritageResolves(scope)
    THEN [threw |-> FALSE, command |-> "CopyCommand"]
    ELSE [threw |-> TRUE, command |-> "none"]

\* CopyCommand.execute
CopyCommandExecute(editor) == [editor EXCEPT !.clipboard = editor.selected]

\* Button.click: this.command.execute is read and not called
ButtonClick(editor, command) == editor

IdleCommand ==
    /\ cmScope = {}
    /\ cmEditor = [selected |-> 1, clipboard |-> 0]
    /\ cmButton = "none"
    /\ cmLast = [op |-> "none", threw |-> FALSE]

InitCommand ==
    /\ cmScope \in {{}, {"Comamnd"}}
    /\ cmEditor = [selected |-> 1, clipboard |-> 0]
    /\ cmButton = "none"
    /\ cmLast = [op |-> "none", threw |-> FALSE]

\* the editor's selection changes
selectText(t) ==
    /\ cmEditor' = [cmEditor EXCEPT !.selected = t]
    /\ cmLast' = [op |-> "select", threw |-> FALSE]
    /\ UNCHANGED <<cmScope, cmButton>>

\* copyButton = new Button(new CopyCommand(editor))
newCopyButton ==
    LET r == NewCopyCommand(cmScope)
    IN  /\ cmButton' = IF r.threw THEN cmButton ELSE r.command
        /\ cmLast' = [op |-> "new", threw |-> r.threw]
        /\ UNCHANGED <<cmScope, cmEditor>>

\* copyButton.click()
click ==
    /\ cmButton # "none"
    /\ cmEditor' = ButtonClick(cmEditor, cmButton)
    /\ cmLast' = [op |-> "click", threw |-> FALSE]
    /\ UNCHANGED <<cmScope, cmButton>>

\* copyButton.command.execute() called as a method
execute ==
    /\ cmButton # "none"
    /\ cmEditor' = CopyCommandExecute(cmEditor)
    /\ cmLast' = [op |-> "execute", threw |-> FALSE]
    /\ UNCHANGED <<cmScope, cmButton>>

SelectTextStep ==
    /\ \E t \in Texts : selectText(t)
    /\ UNCHANGED exceptCommand

NewCopyButtonStep ==
    /\ newCopyButton
    /\ UNCHANGED exceptCommand

ClickStep ==
    /\ click
    /\ UNCHANGED exceptCommand

ExecuteStep ==
    /\ execute
    /\ UNCHANGED exceptCommand

(***************************************************************************)
(* friendDistance (tryexponent/degrees-of-friendship.js).  Users are       *)
(* 0..NumUsers-1 and friends[a][b] is the matrix entry of row a, column b. *)
(***************************************************************************)
Users == 0..(NumUsers - 1)

\* the square 0/1 matrices with at most MaxEdges entries equal to 1
Matrices ==
    {[a \in Users |-> [b \in Users |-> IF <<a, b>> \in ones THEN 1 ELSE 0]] :
        ones \in {e \in SUBSET (Users \X Users) : Cardinality(e) <= MaxEdges}}

\* variant: row and column are exchanged
IsFriend_Transposed(friends, a, b) == friends[b][a] = 1

\* friends[a][b] === 1
IsFriend(friends, a, b) == friends[a][b] = 1

\* the loop over friend = 0 .. friends[current].length - 1, from `friend` on
RECURSIVE PushFriends(_, _, _, _, _)
PushFriends(friends, current, visited, queue, friend) ==
    IF friend >= NumUsers THEN queue
    ELSE IF IsFriend(friends, current, friend) /\ friend \notin visited
         THEN PushFriends(friends, current, visited, Append(queue, friend), friend + 1)
         ELSE PushFriends(friends, current, visited, queue, friend + 1)

RECURSIVE WhileQueue(_, _, _, _, _)
RECURSIVE ForLevel(_, _, _, _, _, _, _)

\* while (queue.length > 0) { levelSize = queue.length; depth++; for ... }
WhileQueue(friends, userB, visited, queue, depth) ==
    IF Len(queue) > 0
    THEN ForLevel(friends, userB, visited, queue, depth + 1, 0, Len(queue))
    ELSE -1

\* for (i = 0; i < levelSize; i++) { ... }
ForLevel(friends, userB, visited, queue, depth, i, levelSize) ==
    IF i >= levelSize THEN WhileQueue(friends, userB, visited, queue, depth)
    ELSE LET current == Head(queue)
             shifted == Tail(queue)
         IN  IF current \in visited
             THEN ForLevel(friends, userB, visited, shifted, depth, i + 1, levelSize)
             ELSE IF IsFriend(friends, current, userB) THEN depth
             ELSE ForLevel(friends, userB, visited \cup {current},
                           PushFriends(friends, current, visited \cup {current},
                                       shifted, 0),
                           depth, i + 1, levelSize)

friendDistance(friends, userA, userB) ==
    IF userA = userB THEN 0
    ELSE WhileQueue(friends, userB, {}, <<userA>>, 0)

IdleFriends ==
    /\ fdFriends = <<>>
    /\ fdUserA = 0
    /\ fdUserB = 0
    /\ fdDone = FALSE
    /\ fdResult = 0

InitFriends ==
    /\ fdFriends \in Matrices
    /\ fdUserA \in Users
    /\ fdUserB \in Users
    /\ fdDone = FALSE
    /\ fdResult = 0

RunFriends ==
    /\ ~fdDone
    /\ fdDone' = TRUE
    /\ fdResult' = friendDistance(fdFriends, fdUserA, fdUserB)
    /\ UNCHANGED <<fdFriends, fdUserA, fdUserB, exceptFriends>>

(***************************************************************************)
(* Character and CharacterFactory (design-patterns/structural/             *)
(* flyweight.js).  Symbols and fonts are strings, modelled as sequences of *)
(* character codes; a Character object is a reference into fwHeap and      *)
(* this.characters is the set of its own properties, key and reference.    *)
(***************************************************************************)
CodeUpperA == 65

GlyphCodes == CodeUpperA..(CodeUpperA + NumGlyphs - 1)

\* the non-empty strings of at most MaxGlyphLen letters
GlyphStrings == UNION {[1..n -> GlyphCodes] : n \in 1..MaxGlyphLen}

\* new Character(symbol, font)
Character(symbol, font) == [symbol |-> symbol, font |-> font]

\* this.characters = {}
CharacterFactoryConstructor == {}

\* const key = symbol + font
FlyKey(symbol, font) == symbol \o font

\* this.characters[key] is set (a Character is never falsy)
HasCharacter(characters, key) == \E p \in characters : p.key = key

\* this.characters[key]
CharacterAt(characters, key) == (CHOOSE p \in characters : p.key = key).ref

\* getCharacter(symbol, font): the property table, the heap and the reference
\* returned
getCharacter(characters, heap, symbol, font) ==
    LET key == FlyKey(symbol, font)
    IN  IF ~HasCharacter(characters, key)
        THEN [characters |-> characters \cup {[key |-> key, ref |-> Len(heap) + 1]},
              heap       |-> Append(heap, Character(symbol, font)),
              ret        |-> Len(heap) + 1]
        ELSE [characters |-> characters,
              heap       |-> heap,
              ret        |-> CharacterAt(characters, key)]

\* const factory = new CharacterFactory()
IdleFly ==
    /\ fwCharacters = CharacterFactoryConstructor
    /\ fwHeap = <<>>
    /\ fwCalls = <<>>

\* factory.getCharacter(symbol, font); fwCalls records arguments and result
GetCharacterCall(symbol, font) ==
    LET r == getCharacter(fwCharacters, fwHeap, symbol, font)
    IN  /\ Len(fwCalls) < MaxFlyCalls
        /\ fwCharacters' = r.characters
        /\ fwHeap' = r.heap
        /\ fwCalls' = Append(fwCalls, [symbol |-> symbol, font |-> font, ret |-> r.ret])

GetCharacterStep ==
    /\ \E symbol \in GlyphStrings, font \in GlyphStrings : GetCharacterCall(symbol, font)
    /\ UNCHANGED exceptFly

(***************************************************************************)
(* Subject.notify with observers whose update calls back into the Subject  *)
(* (unnamed/part_000).  obUpdate[o] is the body of o.update: the console   *)
(* log of ConcreteObserver, or a call of subject.detach / subject.attach.  *)
(* forEach reads the length of the array once, before the first callback,  *)
(* and visits that array object; detach assigns a new array to             *)
(* this.observers, attach pushes onto the array the field holds.           *)
(***************************************************************************)
LogBody == [kind |-> "log", target |-> NULL]

UpdateBodies ==
    {LogBody} \cup {[kind |-> k, target |-> o] : k \in {"detach", "attach"},
                                                 o \in ObserverRefs}

\* the body of one update run against the Subject: the field this.observers
\* afterwards, whether it is still the array being visited, and that array
RunUpdate(body, field, same, array) ==
    CASE body.kind = "detach" ->
            [field |-> SubjectDetach(field, body.target), same |-> FALSE,
             array |-> array]
      [] body.kind = "attach" ->
            [field |-> SubjectAttach(field, body.target), same |-> same,
             array |-> IF same THEN SubjectAttach(array, body.target) ELSE array]
      [] OTHER -> [field |-> field, same |-> same, array |-> array]

\* this.observers.forEach((o) => o.update(data)) from index k on, n being
\* the length read when forEach began
RECURSIVE ForEachCallback(_, _, _, _, _, _, _, _)
ForEachCallback(array, n, arg, k, done, field, same, bodies) ==
    IF k > n THEN [updates |-> done, state |-> "returned", observers |-> field]
    ELSE LET o    == array[k]
             data == Lookup("data", arg, o)
         IN  IF data = Unbound
             THEN [updates |-> done, state |-> "ReferenceError", observers |-> field]
             ELSE LET r == RunUpdate(bodies[o], field, same, array)
                  IN  ForEachCallback(r.array, n, arg, k + 1,
                                      Append(done, [observer |-> o, data |-> data]),
                                      r.field, r.same, bodies)

SubjectNotifyCallbacks(list, arg, bodies) ==
    ForEachCallback(list, Len(list), arg, 1, <<>>, list, TRUE, bodies)

\* every observer is a ConcreteObserver
IdleCallbacks == obUpdate = [o \in ObserverRefs |-> LogBody]

InitCallbacks ==
    /\ obUpdate \in [ObserverRefs -> UpdateBodies]
    /\ Cardinality({o \in ObserverRefs : obUpdate[o] # LogBody}) <= MaxReentrant

notifyCallbacks(arg) ==
    LET r == SubjectNotifyCallbacks(observers, arg, obUpdate)
    IN  /\ updates' = r.updates
        /\ notifyOutcome' = [state |-> r.state, payload |-> arg,
                             attached |-> observers, left |-> r.observers]
        /\ observers' = r.observers
        /\ UNCHANGED <<subjectCall, obUpdate>>

NotifyCallbacksStep ==
    /\ \E arg \in Payloads : notifyCallbacks(arg)
    /\ UNCHANGED <<lotVars, levelVars, singletonVars, plVars, editorVars, specialVars,
                   topKVars, pollVars, reverseVars, commandVars, friendVars, flyVars>>

\* (the example sections end here)

\* the parking lot, the Level study, the Subject and the singletons at rest
IdleCore ==
    InitLot /\ numSpots = 0 /\ built = <<>> /\ InitSubject /\ InitSingleton
    /\ InitParkingLot

IdleCatalog ==
    /\ IdleEditor
    /\ IdleSpecial
    /\ IdleTopK
    /\ IdlePoll
    /\ IdleReverse
    /\ IdleCommand
    /\ IdleFriends
    /\ IdleFly
    /\ IdleCallbacks

\* every example idle but one
IdleButEditor ==
    /\ IdleCore
    /\ IdleSpecial
    /\ IdleTopK
    /\ IdlePoll
    /\ IdleReverse
    /\ IdleCommand
    /\ IdleFriends
    /\ IdleFly
    /\ IdleCallbacks

IdleButSpecial ==
    /\ IdleCore
    /\ IdleEditor
    /\ IdleTopK
    /\ IdlePoll
    /\ IdleReverse
    /\ IdleCommand
    /\ IdleFriends
    /\ IdleFly
    /\ IdleCallbacks

IdleButTopK ==
    /\ IdleCore
    /\ IdleEditor
    /\ IdleSpecial
    /\ IdlePoll
    /\ IdleReverse
    /\ IdleCommand
    /\ IdleFriends
    /\ IdleFly
    /\ IdleCallbacks

IdleButPoll ==
    /\ IdleCore
    /\ IdleEditor
    /\ IdleSpecial
    /\ IdleTopK
    /\ IdleReverse
    /\ IdleCommand
    /\ IdleFriends
    /\ IdleFly
    /\ IdleCallbacks

IdleButReverse ==
    /\ IdleCore
    /\ IdleEditor
    /\ IdleSpecial
    /\ IdleTopK
    /\ IdlePoll
    /\ IdleCommand
    /\ IdleFriends
    /\ IdleFly
    /\ IdleCallbacks

IdleButCommand ==
    /\ IdleCore
    /\ IdleEditor
    /\ IdleSpecial
    /\ IdleTopK
    /\ IdlePoll
    /\ IdleReverse
    /\ IdleFriends
    /\ IdleFly
    /\ IdleCallbacks

IdleButFriends ==
    /\ IdleCore
    /\ IdleEditor
    /\ IdleSpecial
    /\ IdleTopK
    /\ IdlePoll
    /\ IdleReverse
    /\ IdleCommand
    /\ IdleFly
    /\ IdleCallbacks

IdleButFly ==
    /\ IdleCore
    /\ IdleEditor
    /\ IdleSpecial
    /\ IdleTopK
    /\ IdlePoll
    /\ IdleReverse
    /\ IdleCommand
    /\ IdleFriends
    /\ IdleCallbacks

IdleButCallbacks ==
    /\ IdleCore
    /\ IdleEditor
    /\ IdleSpecial
    /\ IdleTopK
    /\ IdlePoll
    /\ IdleReverse
    /\ IdleCommand
    /\ IdleFriends
    /\ IdleFly

(***************************************************************************)
(* Specifications                                                          *)
(***************************************************************************)
Idle == IdleCore /\ IdleCatalog

\* the lot driven through its own interface
InitSpecLot == Idle

NextLot == AddLevelStep \/ ParkStep \/ UnparkStep

SpecLot == InitSpecLot /\ [][NextLot]_vars

\* the lot with direct calls on its spots as well
NextSpots == AddLevelStep \/ ParkStep \/ UnparkStep \/ SpotParkStep \/ SpotUnparkStep

SpecSpots == InitSpecLot /\ [][NextSpots]_vars

\* new Level(floor, numSpots) for each numSpots
InitSpecLevel ==
    InitLot /\ InitLevel /\ InitSubject /\ InitSingleton /\ InitParkingLot /\ IdleCatalog

NextLevel == Construct

SpecLevel == InitSpecLevel /\ [][NextLevel]_vars

NextSubject == AttachStep \/ DetachStep \/ NotifyStep

SpecSubject == Idle /\ [][NextSubject]_vars

NextSingleton == newSingleton \/ singletonGetInstance

SpecSingleton == Idle /\ [][NextSingleton]_vars

NextParkingLot == newParkingLot \/ parkingLotGetInstance

SpecParkingLot == Idle /\ [][NextParkingLot]_vars

NextEditor == SetContentStep \/ CreateSnapshotStep \/ RestoreSnapshotStep

SpecEditor == Idle /\ [][NextEditor]_vars

NextSpecial == RunSpecial

InitSpecSpecial == IdleButSpecial /\ InitSpecial

SpecSpecial == InitSpecSpecial /\ [][NextSpecial]_vars

NextTopK == RunTopK

InitSpecTopK == IdleButTopK /\ InitTopK

SpecTopK == InitSpecTopK /\ [][NextTopK]_vars

NextPoll == FetchResolves \/ FetchRejects \/ JsonResolves \/ JsonRejects \/ TimerFires

SpecPoll == Idle /\ [][NextPoll]_vars

\* a timer that was set expires; the network may stay silent for ever
SpecPollFair == SpecPoll /\ WF_vars(TimerFires)

NextReverse ==
    ReverseBase \/ ReverseRecurse \/ ReverseOverflow \/ ReverseReturn \/ ReverseDone

InitSpecReverse == IdleButReverse /\ InitReverse

SpecReverse == InitSpecReverse /\ [][NextReverse]_vars

NextCommand == SelectTextStep \/ NewCopyButtonStep \/ ClickStep \/ ExecuteStep

InitSpecCommand == IdleButCommand /\ InitCommand

SpecCommand == InitSpecCommand /\ [][NextCommand]_vars

NextFriends == RunFriends

InitSpecFriends == IdleButFriends /\ InitFriends

SpecFriends == InitSpecFriends /\ [][NextFriends]_vars

NextFly == GetCharacterStep

SpecFly == Idle /\ [][NextFly]_vars

NextCallbacks == AttachStep \/ DetachStep \/ NotifyCallbacksStep

InitSpecCallbacks == IdleButCallbacks /\ InitCallbacks

SpecCallbacks == InitSpecCallbacks /\ [][NextCallbacks]_vars

\* (the specifications end here)

(***************************************************************************)
(* Properties                                                              *)
(***************************************************************************)
SpotIds(lvls) ==
    UNION {{<<l, s>> : s \in 1..Len(lvls[l].parkingSpots)} : l \in 1..Len(lvls)}

SpotAt(lvls, p) == lvls[p[1]].parkingSpots[p[2]]

\* scan order: levels in addLevel order, then spots in list order
Earlier(q, p) == q[1] < p[1] \/ (q[1] = p[1] /\ q[2] < p[2])

Holders(lvls, ref) == {p \in SpotIds(lvls) : SpotAt(lvls, p).parkedVehicle = ref}

Fits(lvls, p, ref) ==
    SpotAt(lvls, p).parkedVehicle = NULL
    /\ SpotAt(lvls, p).vehicleType = Deref(ref).type

SameShape(a, b) ==
    /\ Len(a) = Len(b)
    /\ \A l \in 1..Len(a) : /\ a[l].floor = b[l].floor
                            /\ Len(a[l].parkingSpots) = Len(b[l].parkingSpots)

\* C1: after any sequence of ParkingLot.parkVehicle and unparkVehicle calls,
\* every vehicle object is held by at most one spot across all levels.
C1_VehicleInAtMostOneSpot ==
    \A ref \in VehicleRefs : Cardinality(Holders(levels, ref)) <= 1

\* C2: a parkVehicle(v) that returns true places v in exactly one spot, the
\* first spot in scan order that was available and of v's type; every spot
\* (hence every level) earlier in the order had no such spot, and no other
\* spot changes.
C2_ParkTakesFirstMatchingSpot ==
    (last.op = "parkVehicle" /\ last.ret) =>
        /\ SameShape(levels, before)
        /\ \E p \in SpotIds(before) :
              /\ Fits(before, p, last.vehicle)
              /\ \A q \in SpotIds(before) :
                    Earlier(q, p) => ~Fits(before, q, last.vehicle)
              /\ SpotAt(levels, p) =
                    [SpotAt(before, p) EXCEPT !.parkedVehicle = last.vehicle]
              /\ \A q \in SpotIds(before) \ {p} : SpotAt(levels, q) = SpotAt(before, q)

\* C2 witness: the vehicle went to the second level because every spot of
\* its type in the first level was taken
C2_Witness ==
    /\ last.op = "parkVehicle" /\ last.ret
    /\ Len(before) = 2
    /\ \E s \in 1..Len(before[1].parkingSpots) :
          before[1].parkingSpots[s].vehicleType = Deref(last.vehicle).type
    /\ \E s \in 1..Len(levels[2].parkingSpots) :
          /\ levels[2].parkingSpots[s].parkedVehicle = last.vehicle
          /\ before[2].parkingSpots[s].parkedVehicle = NULL

\* C3: parkVehicle(v) returns false if and only if no level has an available
\* spot of v's type, and then the occupancy of every spot is unchanged.
C3_ParkFailsIffNoMatchingSpot ==
    (last.op = "parkVehicle") =>
        /\ (~last.ret) <=> (\A p \in SpotIds(before) : ~Fits(before, p, last.vehicle))
        /\ (~last.ret) => levels = before

\* C3 witness: a refused vehicle while spots of its type exist (all taken)
\* and a spot of another type is still free
C3_Witness ==
    /\ last.op = "parkVehicle" /\ ~last.ret
    /\ \E p \in SpotIds(before) :
          SpotAt(before, p).vehicleType = Deref(last.vehicle).type
    /\ \E p \in SpotIds(before) : SpotAt(before, p).parkedVehicle = NULL

\* C4: unparkVehicle(v) for a vehicle object no spot holds returns false
\* without throwing and changes no spot; another vehicle object of the same
\* type or licence plate is not unparked in its place.
C4_UnparkOfAbsentVehicle ==
    (last.op = "unparkVehicle" /\ Holders(before, last.vehicle) = {}) =>
        /\ ~last.ret
        /\ ~last.threw
        /\ levels = before

\* C4 witness: the absent vehicle has a parked twin (same type, same plate)
C4_Witness ==
    /\ last.op = "unparkVehicle"
    /\ Holders(before, last.vehicle) = {}
    /\ \E w \in VehicleRefs \ {last.vehicle} :
          /\ Deref(w) = Deref(last.vehicle)
          /\ Holders(levels, w) # {}

\* C5: after unparkVehicle(v) returns true, a spot that held v is available
\* again (the others untouched), and an immediately following parkVehicle(w)
\* for any w of v's type returns true.
C5_FreedSpotIsReusable ==
    [][(last.op = "unparkVehicle" /\ last.ret) =>
          /\ \E p \in Holders(before, last.vehicle) :
                /\ SpotAt(levels, p) = [SpotAt(before, p) EXCEPT !.parkedVehicle = NULL]
                /\ \A q \in SpotIds(before) \ {p} : SpotAt(levels, q) = SpotAt(before, q)
          /\ (last'.op = "parkVehicle"
                /\ Deref(last'.vehicle).type = Deref(last.vehicle).type) => last'.ret
      ]_vars

\* C5 witness: an unpark succeeded in a lot that had no free spot of the
\* vehicle's type, so the freed spot is the only one a same-type vehicle can take
C5_Witness ==
    /\ last.op = "unparkVehicle" /\ last.ret
    /\ \A p \in SpotIds(before) : ~Fits(before, p, last.vehicle)
    /\ Cardinality({p \in SpotIds(levels) : Fits(levels, p, last.vehicle)}) = 1

\* C6: new Level(floor, numSpots) creates exactly numSpots spots numbered
\* 1..numSpots: the first floor(numSpots/10) MOTORCYCLE, the next
\* floor(7*numSpots/10) CAR, the rest TRUCK.
C6_LevelPartition ==
    (built # <<>>) =>
        LET spots == built[1].parkingSpots
            bikes == numSpots \div 10
            cars  == (7 * numSpots) \div 10
        IN  /\ Len(spots) = numSpots
            /\ \A k \in 1..Len(spots) :
                  /\ spots[k].spotNumber = k
                  /\ spots[k].vehicleType =
                        IF k <= bikes THEN "MOTORCYCLE"
                        ELSE IF k <= bikes + cars THEN "CAR"
                        ELSE "TRUCK"

\* C7: ParkingSpot.parkVehicle(v) on an occupied spot, or with a vehicle of
\* another type than the spot's, throws and leaves the parked vehicle as is.
C7_InvalidSpotParkThrows ==
    (last.op = "spot.parkVehicle"
       /\ ~Fits(before, <<last.level, last.spot>>, last.vehicle)) =>
        /\ last.threw
        /\ levels = before

\* C7 witness: a vehicle of the right type sent to a spot another vehicle holds
C7_Witness ==
    /\ last.op = "spot.parkVehicle"
    /\ SpotAt(before, <<last.level, last.spot>>).vehicleType = Deref(last.vehicle).type
    /\ SpotAt(before, <<last.level, last.spot>>).parkedVehicle
          \notin {NULL, last.vehicle}

\* C8: notify(payload) with observers attached invokes update of each
\* attached observer once per list entry, in attachment order, each with the
\* payload, and returns normally.
C8_NotifyReachesEveryObserver ==
    (notifyOutcome.state # "none" /\ notifyOutcome.attached # <<>>) =>
        /\ notifyOutcome.state = "returned"
        /\ updates = [k \in 1..Len(notifyOutcome.attached) |->
                         [observer |-> notifyOutcome.attached[k],
                          data |-> notifyOutcome.payload]]

\* C9: any mix of new Singleton() and Singleton.getInstance() yields the same
\* object every time; the instance is created on the first acquisition and
\* never replaced afterwards.
C9_SingletonSameObject ==
    /\ (sAcquired = <<>>) <=> (sInstance = NULL)
    /\ \A i \in 1..Len(sAcquired) :
          /\ sAcquired[i].ref # NULL
          /\ sAcquired[i].ref = sAcquired[1].ref
          /\ sInstance = sAcquired[1].ref

\* C9 witness: the accessor first, direct construction after it, and the
\* accessor again
C9_Witness ==
    \E i, j, k \in 1..Len(sAcquired) :
        /\ i < j /\ j < k
        /\ sAcquired[i].how = "getInstance"
        /\ sAcquired[j].how = "new"
        /\ sAcquired[k].how = "getInstance"

\* C10: at most one ParkingLot instance ever exists: every acquisition that
\* does not throw yields the one object created first.
C10_AtMostOneParkingLot ==
    \A i, j \in 1..Len(plAcquired) :
        (~plAcquired[i].threw /\ ~plAcquired[j].threw)
            => plAcquired[i].ref = plAcquired[j].ref

\* C11: m = createSnapshot(), then any setContent calls, then
\* restoreSnapshot(m) leaves the content equal to the content at the time of
\* createSnapshot; the memento is not altered by later calls, so restoring it
\* again after further mutation gives the same content.
C11_RestoreReturnsSavedContent ==
    /\ Len(edMementos) = Len(edSaved)
    /\ \A m \in 1..Len(edMementos) : edMementos[m].content = edSaved[m]
    /\ (edLast.op = "restoreSnapshot") => edContent = edSaved[edLast.memento]

\* C11 witness: a restore brought back a content that differs from the one
\* an older memento holds and from the empty initial content
C11_Witness ==
    /\ edLast.op = "restoreSnapshot"
    /\ edLast.memento = 2
    /\ edSaved[2] # 0
    /\ edSaved[1] # edSaved[2]
    /\ edContent = edSaved[2]

IsSpecial(t) == \A i \in 1..(Len(t) - 1) : t[i] # t[i + 1]

\* lexicographic order on strings of equal length
LexLess(s, t) ==
    \E i \in 1..Len(s) : s[i] < t[i] /\ \A j \in 1..(i - 1) : s[j] = t[j]

\* C12: for every string s of lowercase letters, getSpecialString(s) is the
\* lexicographically smallest string of the same length that is strictly
\* greater than s and has no two adjacent characters equal, and it is '-1'
\* exactly when no such string exists.
C12_SmallestSpecialSuccessor ==
    gsDone =>
        /\ (gsResult # MinusOne) =>
              /\ Len(gsResult) = Len(gsInput)
              /\ IsSpecial(gsResult)
              /\ LexLess(gsInput, gsResult)
        /\ LET greater == {t \in [1..Len(gsInput) -> CodeA..CodeZ] :
                              IsSpecial(t) /\ LexLess(gsInput, t)}
           IN  IF greater = {} THEN gsResult = MinusOne
               ELSE gsResult \in greater /\ \A t \in greater : ~LexLess(t, gsResult)

LastChoices(s) ==
    {c \in CodeA..CodeZ : c > s[Len(s)] /\ (Len(s) = 1 \/ c # s[Len(s) - 1])}

Occurrences(list, w) == Cardinality({i \in 1..Len(list) : list[i] = w})

\* lexicographic order on words: a proper prefix first, else the first
\* differing character decides
WordLess(a, b) ==
    \/ Len(a) < Len(b) /\ SubSeq(b, 1, Len(a)) = a
    \/ \E i \in 1..Len(a) :
          /\ i <= Len(b)
          /\ a[i] < b[i]
          /\ \A j \in 1..(i - 1) : a[j] = b[j]

C14_PollingGoesOn ==
    /\ [](lpFetches + lpParsing + Len(lpTimers) >= 1)
    /\ [](\A i \in 1..Len(lpTimers) : lpTimers[i] = 10000)
    /\ [][(lpLast' = "data") => lpFetches' >= 1]_vars
    /\ [][(lpLast' \in {"fetch failed", "json failed"}) => Len(lpTimers') >= 1]_vars
    /\ ((lpTimers # <<>>) ~> (lpFetches >= 1 /\ lpLast = "timer"))

\* C14 witness: the third failure in a row has armed a timer of 10 s, the
\* earlier retries having been made
C14_Witness ==
    /\ lpFailures >= 3
    /\ lpStarted >= 3
    /\ lpTimers = <<10000>>
    /\ lpLast \in {"fetch failed", "json failed"}

Reversed(s) == [i \in 1..Len(s) |-> s[Len(s) + 1 - i]]

\* C15: for every string s, of even or odd length, reverse(s) returns the
\* characters of s in reverse order.
C15_ReverseReturnsReversed ==
    (rvStatus \notin {"called", "returning"}) =>
        /\ rvStatus = "returned"
        /\ rvResult = Reversed(rvInput)

\* C20: reverse(s) terminates: the recursion reaches the empty-string base
\* case after finitely many calls, one-character and odd-length strings
\* included, so it never runs out of call stack.
C20_ReverseReachesBaseCase ==
    /\ rvStatus # "RangeError"
    /\ Len(rvStack) <= Len(rvInput)

\* C16: a Button can be built with a CopyCommand for an editor, and after
\* its click() editor.clipboard equals editor.getSelectedText().
C16_ClickCopiesSelection ==
    /\ (cmLast.op = "new") => ~cmLast.threw
    /\ (cmLast.op = "click") => cmEditor.clipboard = cmEditor.selected

\* the users reachable from userA along at most k entries equal to 1
RECURSIVE Within(_, _, _)
Within(friends, userA, k) ==
    IF k = 0 THEN {userA}
    ELSE LET near == Within(friends, userA, k - 1)
         IN  near \cup {b \in Users : \E a \in near : friends[a][b] = 1}

\* C17: friendDistance(friends, A, B) terminates and returns 0 when A = B,
\* otherwise the number of edges of a shortest path from A to B along
\* entries equal to 1, or -1 when B is not reachable from A.
C17_FriendDistanceIsShortestPath ==
    fdDone =>
        LET lengths == {k \in 1..NumUsers : fdUserB \in Within(fdFriends, fdUserA, k)}
        IN  fdResult =
               IF fdUserA = fdUserB THEN 0
               ELSE IF lengths = {} THEN -1
               ELSE CHOOSE k \in lengths : \A j \in lengths : k <= j

\* C17 witness: distance 2 through a user m, with a cycle A -> m -> A and
\* no way back from B to m
C17_Witness ==
    /\ fdDone
    /\ fdResult = 2
    /\ \E m \in Users \ {fdUserA, fdUserB} :
          /\ fdFriends[fdUserA][m] = 1
          /\ fdFriends[m][fdUserA] = 1
          /\ fdFriends[m][fdUserB] = 1
          /\ fdFriends[fdUserB][m] = 0

\* C18: the observer list is the attached observers in attachment order,
\* duplicates kept: attach(o) adds o at the end; detach(o) removes every
\* occurrence of o and leaves the order of the other entries unchanged;
\* detach of an observer that is not attached changes nothing.
C18_AttachDetachKeepOrder ==
    LET o    == subjectCall.observer
        old  == subjectCall.before
        kept == {j \in 1..Len(old) : old[j] # o}
    IN  /\ (subjectCall.op = "attach") =>
              /\ Len(observers) = Len(old) + 1
              /\ \A i \in 1..Len(old) : observers[i] = old[i]
              /\ observers[Len(observers)] = o
        /\ (subjectCall.op = "detach") =>
              /\ Len(observers) = Cardinality(kept)
              /\ \A i \in 1..Len(observers) :
                    \E j \in kept : /\ Cardinality({x \in kept : x < j}) = i - 1
                                    /\ observers[i] = old[j]
              /\ (\A j \in 1..Len(old) : old[j] # o) => observers = old

\* C18 witness: detach(o) on the list o, x, o left just x
C18_Witness ==
    /\ subjectCall.op = "detach"
    /\ Len(subjectCall.before) = 3
    /\ subjectCall.before[1] = subjectCall.observer
    /\ subjectCall.before[2] # subjectCall.observer
    /\ subjectCall.before[3] = subjectCall.observer
    /\ observers = <<subjectCall.before[2]>>

\* C21: every getCharacter call returns a Character whose symbol and font are
\* the arguments of that call, and two calls return the same object exactly
\* when their (symbol, font) pairs are equal.
C21_FlyweightPerPair ==
    /\ \A i \in 1..Len(fwCalls) :
          /\ fwHeap[fwCalls[i].ret].symbol = fwCalls[i].symbol
          /\ fwHeap[fwCalls[i].ret].font = fwCalls[i].font
    /\ \A i, j \in 1..Len(fwCalls) :
          (fwCalls[i].ret = fwCalls[j].ret)
              <=> (/\ fwCalls[i].symbol = fwCalls[j].symbol
                   /\ fwCalls[i].font = fwCalls[j].font)

\* C22: after any sequence of ParkingLot.parkVehicle, ParkingLot.unparkVehicle
\* and direct ParkingSpot.parkVehicle / unparkVehicle calls, every occupied
\* spot holds a vehicle of the spot's type, and no call changes the number or
\* the type a spot got when its Level was constructed.
C22_SpotsKeepTypeAndNumber ==
    /\ [](\A p \in SpotIds(levels) :
             SpotAt(levels, p).parkedVehicle # NULL =>
                 Deref(SpotAt(levels, p).parkedVehicle).type
                     = SpotAt(levels, p).vehicleType)
    /\ [][\A p \in SpotIds(levels) :
             /\ p \in SpotIds(levels')
             /\ SpotAt(levels', p).spotNumber = SpotAt(levels, p).spotNumber
             /\ SpotAt(levels', p).vehicleType = SpotAt(levels, p).vehicleType]_vars

\* C22 witness: a direct call offered a free spot a vehicle of another type
\* and was refused, while a spot of the lot is occupied
C22_Witness ==
    /\ last.op = "spot.parkVehicle"
    /\ last.threw
    /\ SpotAt(before, <<last.level, last.spot>>).parkedVehicle = NULL
    /\ SpotAt(before, <<last.level, last.spot>>).vehicleType
          # Deref(last.vehicle).type
    /\ \E p \in SpotIds(levels) : SpotAt(levels, p).parkedVehicle # NULL

\* the observer list after the update bodies of attached[k..] have run on it
RECURSIVE AfterUpdates(_, _, _)
AfterUpdates(list, attached, k) ==
    IF k > Len(attached) THEN list
    ELSE AfterUpdates(RunUpdate(obUpdate[attached[k]], list, TRUE, list).field,
                      attached, k + 1)

\* C23: when the update of an attached observer calls detach or attach, the
\* notify in progress still invokes exactly the observers attached when it
\* began, each once and in attachment order; the change shows only in the
\* list later notify calls use (left is the list notify left behind).
C23_NotifyUsesListAtStart ==
    (/\ notifyOutcome.state # "none"
     /\ \E i \in 1..Len(notifyOutcome.attached) :
           obUpdate[notifyOutcome.attached[i]] # LogBody) =>
        /\ notifyOutcome.state = "returned"
        /\ [k \in 1..Len(updates) |-> updates[k].observer] = notifyOutcome.attached
        /\ notifyOutcome.left
              = AfterUpdates(notifyOutcome.attached, notifyOutcome.attached, 1)

\* C24: in the client started by the one longPoll() call at most one poll is
\* outstanding at any moment: fetch requests in flight plus retry timers
\* pending never exceed 1, a response being parsed included, whatever the
\* order of successes, JSON parse failures and transport failures.
C24_AtMostOnePollOutstanding ==
    /\ lpFetches + Len(lpTimers) <= 1
    /\ lpFetches + lpParsing + Len(lpTimers) <= 1

\* C24 witness: after failures and retries a timer has fired and its fetch is
\* the only poll outstanding
C24_Witness ==
    /\ lpLast = "timer"
    /\ lpFailures >= 2
    /\ lpStarted >= 4
    /\ lpFetches = 1
    /\ lpParsing = 0
    /\ lpTimers = <<>>

====
